---------------------------- MODULE Spec2Model ----------------------------
(***************************************************************************)
(* Model of the JNI boundary of relayer-utils (src/java_lib.rs) and of the *)
(* core functions it drives (src/java_impl.rs).                            *)
(*                                                                         *)
(* The collaborators that live outside these two files (the email parser,  *)
(* the circuit padder, hex2field, the hash and salt primitives, the tokio  *)
(* runtime constructor) are oracles: each call draws its outcome (a value, *)
(* an Err, or a panic with any payload type) nondeterministically.         *)
(* Strings are sequences of one-character strings, byte arrays sequences   *)
(* of numbers.  usize arithmetic is modelled at a reduced word width.      *)
(***************************************************************************)
EXTENDS Integers, Sequences, FiniteSets, TLC

\* ------------------------------------------------------------------ bounds
\* longest publickey string the host passes
MaxKeyLen == 6
\* longest signature byte array the host passes
MaxSigLen == 4
\* width of usize in the model (the target's is 64)
UsizeBits == 8
\* host threads that may be inside the library at once
NumThreads == 2
\* entry-point invocations in one behaviour
MaxInvocations == 2

UsizeModulus == 2 ^ UsizeBits
Threads == 1 .. NumThreads
\* the thread of a host that calls from one thread only
MainThread == CHOOSE t \in Threads : \A u \in Threads : t <= u

\* characters of publickey strings: two hex letters, a hex digit, and "x",
\* which is not a hex digit
KeyChars == {"0", "x", "A", "B"}
SigBytes == {1, 2, 3, 4}

SeqsUpTo(S, n) == UNION {[1 .. k -> S] : k \in 0 .. n}

\* ------------------------------------------------- Option / Result / panic
None == [some |-> FALSE, value |-> <<>>]
Some(v) == [some |-> TRUE, value |-> v]

\* an error value as its Display text: an optional context put in front by
\* the code, then the cause reported by the operation that failed
NoErr == [context |-> "", cause |-> ""]
ErrorOf(context, cause) == [context |-> context, cause |-> cause]

\* a panic payload: Box<dyn Any + Send> holding a &str, a String or other
PayloadTypes == {"str", "String", "other"}
PayloadOf(ptype, text) == [ptype |-> ptype, text |-> text]
NoPayload == PayloadOf("none", NoErr)

\* which operation failed in this invocation, and why (ghost)
NoFailure == [op |-> "", cause |-> ""]
FailureOf(op, cause) == [op |-> op, cause |-> cause]

\* the outcome of running a function: Ok(value), Err(err) or an unwinding
\* panic; calls is the trace of collaborator calls it made, in order
ROk(v, c) ==
  [kind |-> "Ok", value |-> v, err |-> NoErr, payload |-> NoPayload,
   calls |-> c, failure |-> NoFailure]
RErr(e, c, f) ==
  [kind |-> "Err", value |-> <<>>, err |-> e, payload |-> NoPayload,
   calls |-> c, failure |-> f]
RPanic(p, c, f) ==
  [kind |-> "Panic", value |-> <<>>, err |-> NoErr, payload |-> p,
   calls |-> c, failure |-> f]

\* Result::unwrap: an Err becomes a panic whose String payload shows the error
Unwrap(r) ==
  IF r.kind = "Err"
    THEN RPanic(PayloadOf("String", r.err), r.calls, r.failure)
    ELSE r

\* outcomes a collaborator call can have
CollabOutcomes ==
  {[kind |-> "ok", ptype |-> "none"], [kind |-> "err", ptype |-> "none"]}
    \cup {[kind |-> "panic", ptype |-> p] : p \in PayloadTypes}
\* a collaborator that returns no Result can only return or panic
InfallibleOutcomes == {o \in CollabOutcomes : o.kind # "err"}
CallOf(op, arg) == [op |-> op, arg |-> arg]

\* the outcome `o` of collaborator `op`, called after the calls `before`
Collab(op, arg, o, v, before) ==
  LET c == Append(before, CallOf(op, arg))
  IN  CASE o.kind = "ok" -> ROk(v, c)
        [] o.kind = "err" ->
             RErr(ErrorOf("", op), c, FailureOf(op, op))
        [] OTHER ->
             RPanic(PayloadOf(o.ptype, ErrorOf("", op)), c, FailureOf(op, op))

\* ------------------------------------------------------- pure conversions
\* faulty variant: the bytes are not reversed
NotReversed(s) == s

\* Vec::reverse
Reverse(s) == [i \in 1 .. Len(s) |-> s[Len(s) + 1 - i]]

\* value of a hex digit, -1 for any other character
HexVal(ch) ==
  CASE ch = "0" -> 0
    [] ch = "1" -> 1
    [] ch = "2" -> 2
    [] ch = "3" -> 3
    [] ch = "4" -> 4
    [] ch = "5" -> 5
    [] ch = "6" -> 6
    [] ch = "7" -> 7
    [] ch = "8" -> 8
    [] ch = "9" -> 9
    [] ch = "a" -> 10
    [] ch = "b" -> 11
    [] ch = "c" -> 12
    [] ch = "d" -> 13
    [] ch = "e" -> 14
    [] ch = "f" -> 15
    [] ch = "A" -> 10
    [] ch = "B" -> 11
    [] ch = "C" -> 12
    [] ch = "D" -> 13
    [] ch = "E" -> 14
    [] ch = "F" -> 15
    [] OTHER -> -1

\* hex::decode
hex_decode(s) ==
  IF Len(s) % 2 = 1
    THEN RErr(ErrorOf("", "hex::decode: Odd number of digits"), <<>>,
              FailureOf("hex::decode", "hex::decode: Odd number of digits"))
    ELSE IF \E i \in 1 .. Len(s) : HexVal(s[i]) = -1
      THEN RErr(ErrorOf("", "hex::decode: Invalid character"), <<>>,
                FailureOf("hex::decode", "hex::decode: Invalid character"))
      ELSE ROk([i \in 1 .. Len(s) \div 2 |->
                  16 * HexVal(s[2 * i - 1]) + HexVal(s[2 * i])], <<>>)

\* field2hex of the field element a primitive returned for `arg`
field2hex(f) == [hex |-> f]
FieldOf(op, arg) == [op |-> op, arg |-> arg]

\* ------------------------------------------------------- java_impl.rs
\* a field's byte range is absent, or starts at one of these offsets
Absent == -1
RequiredStarts == {Absent, 5}
SubjectStarts == {Absent, 0, 80}
OptionalStarts == {Absent, 10, 120}
ParsedEmails ==
  [from_addr : RequiredStarts, domain : RequiredStarts,
   subject : SubjectStarts, address : OptionalStarts,
   pubkey : OptionalStarts, validator : OptionalStarts,
   timestamp : OptionalStarts]

\* ParsedEmail::get_*_idxes: Ok((start, end)) or Err when the range is absent
Locate(op, start, before) ==
  IF start = Absent
    THEN RErr(ErrorOf("", op), Append(before, CallOf(op, <<>>)),
              FailureOf(op, op))
    ELSE ROk(start, Append(before, CallOf(op, <<>>)))

\* match r { Ok(indexes) => indexes.0, Err(_) => 0 }
OrZero(r) == IF r.kind = "Ok" THEN r.value ELSE 0

\* usize `a - b`: with overflow checks compiled in an underflow panics,
\* without them the result wraps modulo the word size
usize_sub(a, b, checks, before) ==
  IF a >= b
    THEN ROk(a - b, before)
    ELSE IF checks
      THEN RPanic(PayloadOf("str", ErrorOf("", "attempt to subtract with overflow")),
                  before,
                  FailureOf("usize subtraction", "attempt to subtract with overflow"))
      ELSE ROk((a - b) % UsizeModulus, before)

\* what circuit::generate_circuit_inputs returns (opaque to this code)
CircuitInputs ==
  [in_padded |-> "in_padded", pubkey |-> "pubkey", signature |-> "signature",
   in_len_padded_bytes |-> "in_len_padded_bytes"]

generate_email_auth_input_for_java(oParse, parsed, oPad, account_code, checks) ==
  LET pe == Collab("ParsedEmail::new_from_raw_email", <<>>, oParse, parsed, <<>>)
  IN  IF pe.kind # "Ok" THEN pe ELSE
  LET ci == Collab("circuit::generate_circuit_inputs", <<>>, oPad,
                   CircuitInputs, pe.calls)
  IN  IF ci.kind # "Ok" THEN ci ELSE
  LET from == Unwrap(Locate("get_from_addr_idxes", parsed.from_addr, ci.calls))
  IN  IF from.kind # "Ok" THEN from ELSE
  LET dom == Unwrap(Locate("get_email_domain_idxes", parsed.domain, from.calls))
  IN  IF dom.kind # "Ok" THEN dom ELSE
  LET subj == Locate("get_subject_all_idxes", parsed.subject, dom.calls)
  IN  IF subj.kind # "Ok" THEN subj ELSE
  LET addr == Locate("get_address_idxes", parsed.address, subj.calls)
      pk == Locate("get_pubkey_idxes", parsed.pubkey, addr.calls)
      val == Locate("get_validator_idxes", parsed.validator, pk.calls)
      address_idx == usize_sub(OrZero(addr), subj.value, checks, val.calls)
  IN  IF address_idx.kind # "Ok" THEN address_idx ELSE
  LET pubkey_idx == usize_sub(OrZero(pk), subj.value, checks, val.calls)
  IN  IF pubkey_idx.kind # "Ok" THEN pubkey_idx ELSE
  LET validator_idx == usize_sub(OrZero(val), subj.value, checks, val.calls)
  IN  IF validator_idx.kind # "Ok" THEN validator_idx ELSE
  LET ts == Locate("get_timestamp_idxes", parsed.timestamp, val.calls)
      timestamp_idx == usize_sub(OrZero(ts), subj.value, checks, ts.calls)
  IN  IF timestamp_idx.kind # "Ok" THEN timestamp_idx ELSE
  ROk([padded_header |-> ci.value.in_padded,
       public_key |-> ci.value.pubkey,
       signature |-> ci.value.signature,
       padded_header_len |-> ci.value.in_len_padded_bytes,
       account_code |-> field2hex(account_code),
       from_addr_idx |-> from.value,
       subject_idx |-> subj.value,
       domain_idx |-> dom.value,
       timestamp_idx |-> timestamp_idx.value,
       address_idx |-> address_idx.value,
       pubkey_idx |-> pubkey_idx.value,
       validator_idx |-> validator_idx.value],
      ts.calls)

generate_email_nullifier_for_java(signature, oHash) ==
  LET reversed == Reverse(signature)
      h == Collab("email_nullifier", reversed, oHash,
                  FieldOf("email_nullifier", reversed), <<>>)
  IN  CASE h.kind = "Ok" -> ROk(field2hex(h.value), h.calls)
        [] h.kind = "Err" ->
             RErr(ErrorOf("email_nullifier compute failed", h.err.cause),
                  h.calls, h.failure)
        [] OTHER -> h

\* faulty variant: a key too short or not hex is hashed as the empty byte string
\* (publickey.get(2..).unwrap_or(""), hex::decode(..).unwrap_or_default())
generate_publickey_hash_lenient(publickey, oHash) ==
  LET decoded == hex_decode(SubSeq(publickey, 3, Len(publickey)))
      bytes == IF decoded.kind = "Ok" THEN decoded.value ELSE <<>>
      reversed == Reverse(bytes)
      h == Collab("public_key_hash", reversed, oHash,
                  FieldOf("public_key_hash", reversed), <<>>)
  IN  CASE h.kind = "Ok" -> ROk(field2hex(h.value), h.calls)
        [] h.kind = "Err" ->
             RErr(ErrorOf("email_nullifier compute failed", h.err.cause),
                  h.calls, h.failure)
        [] OTHER -> h

generate_publickey_hash_for_java(publickey, oHash) ==
  IF Len(publickey) < 2
    THEN RPanic(PayloadOf("String", ErrorOf("", "byte index 2 is out of bounds")),
                <<>>,
                FailureOf("publickey[2..]", "byte index 2 is out of bounds"))
    ELSE
  LET decoded == hex_decode(SubSeq(publickey, 3, Len(publickey)))
  IN  IF decoded.kind = "Err"
        THEN RErr(ErrorOf("the input string is invalid hex", decoded.err.cause),
                  <<>>, decoded.failure)
        ELSE
  LET reversed == Reverse(decoded.value)
      h == Collab("public_key_hash", reversed, oHash,
                  FieldOf("public_key_hash", reversed), <<>>)
  IN  CASE h.kind = "Ok" -> ROk(field2hex(h.value), h.calls)
        [] h.kind = "Err" ->
             RErr(ErrorOf("email_nullifier compute failed", h.err.cause),
                  h.calls, h.failure)
        [] OTHER -> h

generate_email_hash_for_java(email_addr, account_code_str, oPad, oHex, oSalt) ==
  LET padded == Collab("PaddedEmailAddr::from_email_addr", email_addr, oPad,
                       FieldOf("PaddedEmailAddr", email_addr), <<>>)
  IN  IF padded.kind # "Ok" THEN padded ELSE
  LET account_code == Collab("hex2field", account_code_str, oHex,
                             FieldOf("hex2field", account_code_str), padded.calls)
  IN  IF account_code.kind # "Ok" THEN account_code ELSE
  LET salt == Collab("AccountSalt::new", <<>>, oSalt,
                     FieldOf("AccountSalt", <<padded.value, account_code.value>>),
                     account_code.calls)
  IN  CASE salt.kind = "Ok" -> ROk(field2hex(salt.value), salt.calls)
        [] salt.kind = "Err" ->
             RErr(ErrorOf("AccountSalt failed", salt.err.cause),
                  salt.calls, salt.failure)
        [] OTHER -> salt

\* -------------------------------------------------------- java_lib.rs
\* JavaResponse; msg keeps the two parts format! joins
NoEnvelope == [code |-> -1, msg |-> [errmsg |-> "", reason |-> NoErr], data |-> None]

\* faulty variant: the error envelope carries a payload
error_response_with_data(errmsg, err) ==
  [code |-> 1, msg |-> [errmsg |-> errmsg, reason |-> err], data |-> Some(errmsg)]

error_response(errmsg, err) ==
  [code |-> 1, msg |-> [errmsg |-> errmsg, reason |-> err], data |-> None]

success_response(input) ==
  [code |-> 0, msg |-> [errmsg |-> "rust call success", reason |-> NoErr],
   data |-> Some(input)]

box_to_anyhow_error(b) ==
  IF b.ptype \in {"str", "String"}
    THEN b.text
    ELSE ErrorOf("", "Unknown panic payload")

\* faulty variant: the closure is called without catch_unwind
catch_unwind_absent(r) == r

\* panic::catch_unwind: a panic leaving the closure is stopped and returned
\* as Err(payload); any other result passes through
catch_unwind(r) ==
  IF r.kind = "Panic" THEN [r EXCEPT !.kind = "Caught"] ELSE r

\* a host reference: null, or a Java string / byte array with this content
JNull == [null |-> TRUE, content |-> <<>>]
JRef(content) == [null |-> FALSE, content |-> content]

\* JNIEnv::get_string and JNIEnv::convert_byte_array
get_string(j) ==
  IF j.null
    THEN RErr(ErrorOf("", "get_string: NullPtr"), <<>>,
              FailureOf("get_string", "get_string: NullPtr"))
    ELSE ROk(j.content, <<>>)
convert_byte_array(j) ==
  IF j.null
    THEN RErr(ErrorOf("", "convert_byte_array: NullPtr"), <<>>,
              FailureOf("convert_byte_array", "convert_byte_array: NullPtr"))
    ELSE ROk(j.content, <<>>)

\* the arguments the host passes
EmailArgs == {JNull, JRef("raw email")}
AccountCodeArgs == {JNull, JRef("account code")}
EmailAddrArgs == {JNull, JRef("email addr")}
SignatureArgs == {JNull} \cup {JRef(b) : b \in SeqsUpTo(SigBytes, MaxSigLen)}
PublicKeyArgs == {JNull} \cup {JRef(k) : k \in SeqsUpTo(KeyChars, MaxKeyLen)}

\* the argument decoding of each entry point: the decoded arguments, or the
\* first failure with the message the entry point gives it
Decoded(r, errmsg) == [r |-> r, errmsg |-> errmsg]

generateEmailInput_args(email, account_code) ==
  LET e == get_string(email)
      a == get_string(account_code)
  IN  IF e.kind = "Err" THEN Decoded(e, "can not got email from input")
      ELSE IF a.kind = "Err"
        THEN Decoded(a, "can not got account code from input")
        ELSE Decoded(ROk([email |-> e.value, account_code |-> a.value], <<>>), "")

emailnullifer_args(signature) ==
  LET s == convert_byte_array(signature)
  IN  IF s.kind = "Err" THEN Decoded(s, "can not got signature")
      ELSE Decoded(ROk([signature |-> s.value], <<>>), "")

publickeyHash_args(publickey) ==
  LET k == get_string(publickey)
  IN  IF k.kind = "Err" THEN Decoded(k, "can not got publickey")
      ELSE Decoded(ROk([publickey |-> k.value], <<>>), "")

emailHash_args(email_addr, account_code) ==
  LET e == get_string(email_addr)
      a == get_string(account_code)
  IN  IF e.kind = "Err" THEN Decoded(e, "can not got email_addr")
      ELSE IF a.kind = "Err" THEN Decoded(a, "can not got account_code")
        ELSE Decoded(ROk([email_addr |-> e.value, account_code |-> a.value], <<>>), "")

\* the message each entry point gives a panic caught at its boundary
PanicErrMsg(name) ==
  CASE name = "generateEmailInput" -> "account is wrong value"
    [] name = "emailnullifer" -> "generate_email_nullifier failed"
    [] name = "publickeyHash" -> "generate_publickey_hash_for_java failed"
    [] name = "emailHash" -> "generate_email_hash_for_java failed"

\* the tokio runtime an invocation creates; each Runtime::new is a new object
NoRuntime == 0
\* faulty variant: every invocation gets the one runtime of a pool
PooledRuntime(invocation) == 1
NewRuntime(invocation) == invocation
\* dropping the runtime `r` of the closure's frame
DropRuntime(live, r) == live \ {r}

NoResult ==
  [kind |-> "None", value |-> <<>>, err |-> NoErr, payload |-> NoPayload,
   calls |-> <<>>, failure |-> NoFailure]

VARIABLES
  overflow_checks,  \* build profile: are arithmetic overflow checks compiled in
  pc,               \* where each host thread is inside the library
  entry,            \* the entry point the thread is in
  args,             \* its decoded arguments
  inv,              \* the number of the invocation the thread is serving
  core,             \* outcome of the core function so far (with its call trace)
  result,           \* what the guarded closure yields to the entry point
  parsed_email,     \* the ParsedEmail the parser returned to this invocation
  rt,               \* the closure's local `rt`
  envelope,         \* the JavaResponse the invocation returned
  emitted,          \* responses the invocation has returned
  invocations,      \* invocations started so far
  rtLive,           \* runtimes that exist
  rtOwner,          \* <<runtime, invocation>>: which invocation created it
  rtUsedBy          \* <<runtime, invocation>>: which invocations ran on it

vars ==
  <<overflow_checks, pc, entry, args, inv, core, result, parsed_email, rt,
    envelope, emitted, invocations, rtLive, rtOwner, rtUsedBy>>

Init ==
  /\ overflow_checks \in BOOLEAN
  /\ pc = [t \in Threads |-> "idle"]
  /\ entry = [t \in Threads |-> "none"]
  /\ args = [t \in Threads |-> <<>>]
  /\ inv = [t \in Threads |-> 0]
  /\ core = [t \in Threads |-> NoResult]
  /\ result = [t \in Threads |-> NoResult]
  /\ parsed_email = [t \in Threads |-> None]
  /\ rt = [t \in Threads |-> NoRuntime]
  /\ envelope = [t \in Threads |-> NoEnvelope]
  /\ emitted = [t \in Threads |-> 0]
  /\ invocations = 0
  /\ rtLive = {}
  /\ rtOwner = {}
  /\ rtUsedBy = {}

\* The host calls entry point `name`; d is the decoding of its arguments.
\* A decoding failure returns the error envelope at once.
Decode(t, name, d, next) ==
  /\ pc[t] = "idle"
  /\ invocations < MaxInvocations
  /\ invocations' = invocations + 1
  /\ inv' = [inv EXCEPT ![t] = invocations + 1]
  /\ entry' = [entry EXCEPT ![t] = name]
  /\ core' = [core EXCEPT ![t] = d.r]
  /\ result' = [result EXCEPT ![t] = NoResult]
  /\ parsed_email' = [parsed_email EXCEPT ![t] = None]
  /\ IF d.r.kind = "Err"
       THEN /\ envelope' = [envelope EXCEPT ![t] = error_response(d.errmsg, d.r.err)]
            /\ emitted' = [emitted EXCEPT ![t] = 1]
            /\ args' = [args EXCEPT ![t] = <<>>]
            /\ pc' = [pc EXCEPT ![t] = "returned"]
       ELSE /\ envelope' = [envelope EXCEPT ![t] = NoEnvelope]
            /\ emitted' = [emitted EXCEPT ![t] = 0]
            /\ args' = [args EXCEPT ![t] = d.r.value]
            /\ pc' = [pc EXCEPT ![t] = next]
  /\ UNCHANGED <<overflow_checks, rt, rtLive, rtOwner, rtUsedBy>>

\* the guarded closure of a digest entry point has run and yielded `c`
Guarded(t, c) ==
  /\ core' = [core EXCEPT ![t] = c]
  /\ result' = [result EXCEPT ![t] = catch_unwind(Unwrap(c))]
  /\ pc' = [pc EXCEPT ![t] = "respond"]
  /\ UNCHANGED <<overflow_checks, entry, args, inv, parsed_email, rt, envelope,
                 emitted, invocations, rtLive, rtOwner, rtUsedBy>>

generateEmailInput_decode(t) ==
  /\ pc[t] = "idle"
  /\ \E email \in EmailArgs, account_code \in AccountCodeArgs :
       Decode(t, "generateEmailInput",
              generateEmailInput_args(email, account_code), "enter")

\* closure, first part: hex2field(..).unwrap(), Runtime::new().unwrap()
generateEmailInput_enter(t, HexOutcomes, RuntimeOutcomes) ==
  /\ pc[t] = "enter"
  /\ \E oHex \in HexOutcomes, oRt \in RuntimeOutcomes :
       LET code == Collab("hex2field", args[t].account_code, oHex,
                          FieldOf("hex2field", args[t].account_code), <<>>)
           new == Collab("Runtime::new", <<>>, oRt, NewRuntime(inv[t]),
                         code.calls)
       IN  IF code.kind # "Ok" \/ new.kind # "Ok"
             THEN LET failed == IF code.kind # "Ok" THEN code ELSE new
                  IN  /\ core' = [core EXCEPT ![t] = failed]
                      /\ result' =
                           [result EXCEPT ![t] = catch_unwind(Unwrap(failed))]
                      /\ pc' = [pc EXCEPT ![t] = "respond"]
                      /\ UNCHANGED <<args, rt, rtLive, rtOwner>>
             ELSE /\ core' = [core EXCEPT ![t] = new]
                  /\ args' = [args EXCEPT ![t].account_code = code.value]
                  /\ rt' = [rt EXCEPT ![t] = new.value]
                  /\ rtLive' = rtLive \cup {new.value}
                  /\ rtOwner' = rtOwner \cup {<<new.value, inv[t]>>}
                  /\ pc' = [pc EXCEPT ![t] = "block_on"]
                  /\ UNCHANGED result
  /\ UNCHANGED <<overflow_checks, entry, inv, parsed_email, envelope, emitted,
                 invocations, rtUsedBy>>

\* rt.block_on(generate_email_auth_input_for_java(..)).unwrap()
generateEmailInput_block_on(t, ParseOutcomes, Parsed, PadOutcomes) ==
  /\ pc[t] = "block_on"
  /\ \E oParse \in ParseOutcomes, parsed \in Parsed, oPad \in PadOutcomes :
       LET c == generate_email_auth_input_for_java(
                  oParse, parsed, oPad, args[t].account_code, overflow_checks)
           traced == [c EXCEPT !.calls = core[t].calls \o c.calls]
       IN  /\ core' = [core EXCEPT ![t] = traced]
           /\ result' = [result EXCEPT ![t] = Unwrap(traced)]
           /\ parsed_email' =
                [parsed_email EXCEPT
                   ![t] = IF oParse.kind = "ok" THEN Some(parsed) ELSE None]
  /\ rtUsedBy' = rtUsedBy \cup {<<rt[t], inv[t]>>}
  /\ pc' = [pc EXCEPT ![t] = "closure_exit"]
  /\ UNCHANGED <<overflow_checks, entry, args, inv, rt, envelope, emitted,
                 invocations, rtLive, rtOwner>>

\* the closure ends, by returning or by unwinding: its local rt is dropped
generateEmailInput_closure_exit(t) ==
  /\ pc[t] = "closure_exit"
  /\ rtLive' = DropRuntime(rtLive, rt[t])
  /\ rt' = [rt EXCEPT ![t] = NoRuntime]
  /\ result' = [result EXCEPT ![t] = catch_unwind(result[t])]
  /\ pc' = [pc EXCEPT ![t] = "respond"]
  /\ UNCHANGED <<overflow_checks, entry, args, inv, core, parsed_email,
                 envelope, emitted, invocations, rtOwner, rtUsedBy>>

emailnullifer_decode(t) ==
  /\ pc[t] = "idle"
  /\ \E signature \in SignatureArgs :
       Decode(t, "emailnullifer", emailnullifer_args(signature), "core")

emailnullifer_core(t) ==
  /\ pc[t] = "core"
  /\ entry[t] = "emailnullifer"
  /\ \E oHash \in CollabOutcomes :
    Guarded(t,
            generate_email_nullifier_for_java(args[t].signature, oHash))

publickeyHash_decode(t) ==
  /\ pc[t] = "idle"
  /\ \E publickey \in PublicKeyArgs :
       Decode(t, "publickeyHash", publickeyHash_args(publickey), "core")

publickeyHash_core(t) ==
  /\ pc[t] = "core"
  /\ entry[t] = "publickeyHash"
  /\ \E oHash \in CollabOutcomes :
    Guarded(t,
            generate_publickey_hash_for_java(args[t].publickey, oHash))

emailHash_decode(t) ==
  /\ pc[t] = "idle"
  /\ \E email_addr \in EmailAddrArgs, account_code \in AccountCodeArgs :
       Decode(t, "emailHash", emailHash_args(email_addr, account_code), "core")

emailHash_core(t) ==
  /\ pc[t] = "core"
  /\ entry[t] = "emailHash"
  /\ \E oPad \in InfallibleOutcomes, oHex \in CollabOutcomes,
        oSalt \in CollabOutcomes :
    Guarded(t,
            generate_email_hash_for_java(args[t].email_addr, args[t].account_code,
                                         oPad, oHex, oSalt))

\* match result { Ok(r) => success_response(r), Err(e) => error_response(..) },
\* then the envelope is returned to the host.  A panic that is still
\* unwinding here leaves the extern function and takes the host down.
\* env.new_string(..) is taken to succeed: the JVM can allocate the string.
respond(t) ==
  /\ pc[t] = "respond"
  /\ CASE result[t].kind = "Ok" ->
            /\ envelope' = [envelope EXCEPT ![t] = success_response(result[t].value)]
            /\ emitted' = [emitted EXCEPT ![t] = @ + 1]
            /\ pc' = [pc EXCEPT ![t] = "returned"]
       [] result[t].kind = "Caught" ->
            /\ envelope' =
                 [envelope EXCEPT
                    ![t] = error_response(PanicErrMsg(entry[t]),
                                          box_to_anyhow_error(result[t].payload))]
            /\ emitted' = [emitted EXCEPT ![t] = @ + 1]
            /\ pc' = [pc EXCEPT ![t] = "returned"]
       [] OTHER ->
            /\ pc' = [pc EXCEPT ![t] = "host_abort"]
            /\ UNCHANGED <<envelope, emitted>>
  /\ UNCHANGED <<overflow_checks, entry, args, inv, core, result, parsed_email,
                 rt, invocations, rtLive, rtOwner, rtUsedBy>>

\* The entry point has returned: its frame is gone and the host thread,
\* holding the response, is free to call again.
host_continue(t) ==
  /\ pc[t] = "returned"
  /\ pc' = [pc EXCEPT ![t] = "idle"]
  /\ entry' = [entry EXCEPT ![t] = "none"]
  /\ args' = [args EXCEPT ![t] = <<>>]
  /\ core' = [core EXCEPT ![t] = NoResult]
  /\ result' = [result EXCEPT ![t] = NoResult]
  /\ parsed_email' = [parsed_email EXCEPT ![t] = None]
  /\ envelope' = [envelope EXCEPT ![t] = NoEnvelope]
  /\ emitted' = [emitted EXCEPT ![t] = 0]
  /\ UNCHANGED <<overflow_checks, inv, rt, invocations, rtLive, rtOwner, rtUsedBy>>

\* one host thread calling the four entry points, one call after another
Next ==
  \/ generateEmailInput_decode(MainThread)
  \/ generateEmailInput_enter(MainThread, CollabOutcomes, CollabOutcomes)
  \/ generateEmailInput_block_on(MainThread, CollabOutcomes, ParsedEmails,
                                 InfallibleOutcomes)
  \/ generateEmailInput_closure_exit(MainThread)
  \/ emailnullifer_decode(MainThread)
  \/ emailnullifer_core(MainThread)
  \/ publickeyHash_decode(MainThread)
  \/ publickeyHash_core(MainThread)
  \/ emailHash_decode(MainThread)
  \/ emailHash_core(MainThread)
  \/ respond(MainThread)
  \/ host_continue(MainThread)

Spec == Init /\ [][Next]_vars

\* Host threads calling generateEmailInput concurrently.  The collaborators'
\* outcomes are drawn from smaller sets: one email with every range, one
\* without a from-address; a parser that returns, fails or panics.
ConcOutcomes ==
  {[kind |-> "ok", ptype |-> "none"], [kind |-> "err", ptype |-> "none"]}
ConcParseOutcomes == ConcOutcomes \cup {[kind |-> "panic", ptype |-> "str"]}
ConcPadOutcomes == {[kind |-> "ok", ptype |-> "none"]}
ConcParsedEmails ==
  {[from_addr |-> f, domain |-> 5, subject |-> 80, address |-> 120,
    pubkey |-> 120, validator |-> 120, timestamp |-> 120] : f \in RequiredStarts}

NextConc ==
  \E t \in Threads :
    \/ generateEmailInput_decode(t)
    \/ generateEmailInput_enter(t, ConcOutcomes, ConcOutcomes)
    \/ generateEmailInput_block_on(t, ConcParseOutcomes, ConcParsedEmails,
                                   ConcPadOutcomes)
    \/ generateEmailInput_closure_exit(t)
    \/ respond(t)
    \/ host_continue(t)

SpecConc == Init /\ [][NextConc]_vars

\* ------------------------------------------------------------ properties
\* the guarded closure of thread t has run (to its end or to a panic)
ClosureRan(t) == pc[t] \in {"respond", "returned"} /\ result[t].kind # "None"

\* generate_email_auth_input_for_java got a ParsedEmail and circuit inputs,
\* and went on to resolve the field ranges
Resolving(t) ==
  /\ entry[t] = "generateEmailInput"
  /\ pc[t] \in {"closure_exit", "respond", "returned"}
  /\ parsed_email[t].some
  /\ core[t].failure.op # "circuit::generate_circuit_inputs"

\* C1: a panic raised inside the guarded closure (by the core function, by
\* the unwrap of its Err, or by a collaborator) never leaves the entry point:
\* no thread is ever unwound into the host, and the invocation returns one
\* envelope with code 1.
C1_FaultContained ==
  \A t \in Threads :
    /\ pc[t] # "host_abort"
    /\ pc[t] = "returned" /\ core[t].kind \in {"Panic", "Err"}
         => envelope[t].code = 1 /\ emitted[t] = 1

\* C1 witness: the email parser panicked with a payload that is no string,
\* and generateEmailInput returned an error envelope.
C1_Witness ==
  \E t \in Threads :
    /\ pc[t] = "returned"
    /\ entry[t] = "generateEmailInput"
    /\ core[t].kind = "Panic"
    /\ core[t].failure.op = "ParsedEmail::new_from_raw_email"
    /\ core[t].payload.ptype = "other"
    /\ envelope[t].code = 1

\* C2: an invocation that has returned produced exactly one envelope, one
\* that has not produced none; the envelope is a success (code 0, data the
\* closure's result) or an error (code 1, data null) and nothing else; and
\* an invocation under way can always take its next step (for a digest
\* closure, whose step asks only for its entry point: it is in one).
C2_OneWellFormedEnvelope ==
  \A t \in Threads :
    /\ pc[t] = "returned"
         => /\ emitted[t] = 1
            /\ envelope[t].code \in {0, 1}
            /\ envelope[t].code = 0 <=> envelope[t].data.some
            /\ envelope[t].code = 1 <=> ~envelope[t].data.some
            /\ envelope[t].code = 0
                 => /\ result[t].kind = "Ok"
                    /\ envelope[t].data.value = result[t].value
            /\ envelope[t].code = 1 => core[t].kind \in {"Panic", "Err"}
    /\ pc[t] # "returned" => emitted[t] = 0 /\ envelope[t] = NoEnvelope
    /\ pc[t] # "host_abort"
    /\ pc[t] = "enter"
         => ENABLED generateEmailInput_enter(t, CollabOutcomes, CollabOutcomes)
    /\ pc[t] = "block_on"
         => ENABLED generateEmailInput_block_on(t, CollabOutcomes, ParsedEmails,
                                                InfallibleOutcomes)
    /\ pc[t] = "closure_exit" => ENABLED generateEmailInput_closure_exit(t)
    /\ pc[t] = "core" => entry[t] \in {"emailnullifer", "publickeyHash", "emailHash"}
    /\ pc[t] = "respond" => ENABLED respond(t)

\* C2 witness: emailHash returned a success envelope carrying the salt.
C2_Witness ==
  \E t \in Threads :
    /\ pc[t] = "returned"
    /\ entry[t] = "emailHash"
    /\ envelope[t].code = 0
    /\ envelope[t].data.some
    /\ envelope[t].data.value.hex.op = "AccountSalt"

\* C3: when subject, address, pubkey, validator and timestamp are all
\* present, whatever their order, the pipeline outputs each of the four as
\* its start minus the subject's start, and the from-address, domain and
\* subject starts unchanged.
C3_RelativeOffsets ==
  \A t \in Threads :
    Resolving(t) =>
      LET p == parsed_email[t].value
          v == core[t].value
      IN  (/\ p.from_addr # Absent /\ p.domain # Absent /\ p.subject # Absent
           /\ p.address # Absent /\ p.pubkey # Absent
           /\ p.validator # Absent /\ p.timestamp # Absent)
            => /\ core[t].kind = "Ok"
               /\ v.address_idx = p.address - p.subject
               /\ v.pubkey_idx = p.pubkey - p.subject
               /\ v.validator_idx = p.validator - p.subject
               /\ v.timestamp_idx = p.timestamp - p.subject
               /\ v.from_addr_idx = p.from_addr
               /\ v.domain_idx = p.domain
               /\ v.subject_idx = p.subject

\* C4: with the required ranges present and the optional ranges that are
\* present not before the subject, an absent optional range does not fail
\* the request and its reported offset is 0, whatever the subject's start.
C4_AbsentOptionalIsZero ==
  \A t \in Threads :
    Resolving(t) =>
      LET p == parsed_email[t].value
          v == core[t].value
          opt == {p.address, p.pubkey, p.validator, p.timestamp}
      IN  (/\ p.from_addr # Absent /\ p.domain # Absent /\ p.subject # Absent
           /\ Absent \in opt
           /\ \A o \in opt : o = Absent \/ o >= p.subject)
            => /\ core[t].kind = "Ok"
               /\ p.address = Absent => v.address_idx = 0
               /\ p.pubkey = Absent => v.pubkey_idx = 0
               /\ p.validator = Absent => v.validator_idx = 0
               /\ p.timestamp = Absent => v.timestamp_idx = 0

\* the operations that decode a host argument
DecodingOps ==
  {"get_string", "convert_byte_array", "hex2field", "publickey[2..]",
   "hex::decode"}

\* C5: when the decoding of a host argument fails (the decoding operation
\* returns Err, or the key has no room for its prefix), the invocation has
\* called nothing but decoding operations, and returns an error envelope.
C5_DecodeFailsFirst ==
  \A t \in Threads :
    (/\ pc[t] = "returned"
     /\ core[t].failure.op \in DecodingOps
     /\ core[t].kind = "Err" \/ core[t].failure.op = "publickey[2..]")
      => /\ envelope[t].code = 1
         /\ \A i \in 1 .. Len(core[t].calls) : core[t].calls[i].op \in DecodingOps

\* the hex digits, as hex::decode accepts them
HexChars ==
  {"0", "1", "2", "3", "4", "5", "6", "7", "8", "9", "a", "b", "c", "d", "e",
   "f", "A", "B", "C", "D", "E", "F"}
\* a publickey shorter than its prefix, or whose remainder is not hex
MalformedKey(k) ==
  \/ Len(k) < 2
  \/ Len(k) % 2 = 1
  \/ \E i \in 3 .. Len(k) : k[i] \notin HexChars

Blames(text) ==
  CASE text = "can not got email from input" -> {"get_string"}
    [] text = "can not got account code from input" -> {"get_string"}
    [] text = "can not got signature" -> {"convert_byte_array"}
    [] text = "can not got publickey" -> {"get_string"}
    [] text = "can not got email_addr" -> {"get_string"}
    [] text = "can not got account_code" -> {"get_string"}
    [] text = "account is wrong value" -> {"hex2field"}
    [] text = "generate_email_nullifier failed" -> {"email_nullifier"}
    [] text = "generate_publickey_hash_for_java failed" ->
         {"publickey[2..]", "hex::decode", "public_key_hash"}
    [] text = "generate_email_hash_for_java failed" ->
         {"PaddedEmailAddr::from_email_addr", "hex2field", "AccountSalt::new"}
    [] text = "email_nullifier compute failed" -> {"email_nullifier"}
    [] text = "the input string is invalid hex" -> {"hex::decode"}
    [] text = "AccountSalt failed" -> {"AccountSalt::new"}

\* C7: the msg of an error envelope names the operation that failed (in
\* err_msg and in any context the reason carries) and gives its cause;
\* stated here for the failures an operation reports as an Err value.
C7_MessageNamesFailure ==
  \A t \in Threads :
    pc[t] = "returned" /\ envelope[t].code = 1 /\ core[t].kind = "Err"
      => LET m == envelope[t].msg
         IN  /\ core[t].failure.op \in Blames(m.errmsg)
             /\ m.reason.context # ""
                  => core[t].failure.op \in Blames(m.reason.context)
             /\ m.reason.cause = core[t].failure.cause

\* b is a, back to front
IsReversalOf(b, a) ==
  /\ Len(b) = Len(a)
  /\ \A i \in 1 .. Len(a) : b[i] = a[Len(a) + 1 - i]

\* C8: whenever emailnullifer or publickeyHash reaches the hash primitive,
\* it has called it once, with the input bytes (the signature, or the bytes
\* the key's hex decodes to) back to front; "0xAABB" is hashed as BB AA.
C8_HashedReversedOnce ==
  \A t \in Threads :
    ClosureRan(t) =>
      /\ entry[t] = "emailnullifer"
           => /\ Len(core[t].calls) = 1
              /\ core[t].calls[1].op = "email_nullifier"
              /\ IsReversalOf(core[t].calls[1].arg, args[t].signature)
      /\ entry[t] = "publickeyHash" /\ ~MalformedKey(args[t].publickey)
           => LET k == args[t].publickey
                  bytes == hex_decode(SubSeq(k, 3, Len(k))).value
              IN  /\ Len(core[t].calls) = 1
                  /\ core[t].calls[1].op = "public_key_hash"
                  /\ IsReversalOf(core[t].calls[1].arg, bytes)
                  /\ k = <<"0", "x", "A", "A", "B", "B">>
                       => core[t].calls[1].arg = <<187, 170>>

\* C8 witness: emailnullifer([1,2,3,4]) returned after hashing [4,3,2,1].
C8_Witness ==
  \E t \in Threads :
    /\ entry[t] = "emailnullifer"
    /\ pc[t] = "returned"
    /\ envelope[t].code = 0
    /\ args[t].signature = <<1, 2, 3, 4>>
    /\ core[t].calls[1].arg = <<4, 3, 2, 1>>

\* C9: when the from-address, the domain or the subject range is absent,
\* generate_email_auth_input_for_java returns Err: it neither panics nor
\* returns an EmailAuthInput.
C9_RequiredMissingIsErr ==
  \A t \in Threads :
    Resolving(t) =>
      LET p == parsed_email[t].value
      IN  (p.from_addr = Absent \/ p.domain = Absent \/ p.subject = Absent)
            => core[t].kind = "Err"

\* C10: a runtime is created by one invocation and used by that invocation
\* only; an invocation inside the pipeline holds a live runtime of its own;
\* and once the closure has ended, by returning or by unwinding, the
\* runtime the invocation created exists no more.
C10_ContextPerInvocation ==
  /\ \A p \in rtUsedBy : p \in rtOwner
  /\ \A p \in rtOwner, q \in rtOwner : p[1] = q[1] => p[2] = q[2]
  /\ \A t \in Threads :
       /\ pc[t] \in {"block_on", "closure_exit"}
            => /\ <<rt[t], inv[t]>> \in rtOwner
               /\ rt[t] \in rtLive
               /\ \A u \in Threads \ {t} :
                    pc[u] \in {"block_on", "closure_exit"} => rt[u] # rt[t]
       /\ pc[t] \in {"respond", "returned", "idle"}
            => \A p \in rtOwner : p[2] = inv[t] => p[1] \notin rtLive

\* C10 witness: one invocation has returned an error envelope after its
\* pipeline panicked on its runtime, now released, while another invocation
\* is inside the pipeline on a live runtime of its own.
C10_Witness ==
  \E t \in Threads, u \in Threads :
    /\ t # u
    /\ pc[t] = "returned"
    /\ core[t].kind = "Panic"
    /\ <<inv[t], inv[t]>> \in rtUsedBy
    /\ inv[t] \notin rtLive
    /\ pc[u] = "closure_exit"
    /\ rt[u] \in rtLive
    /\ <<rt[u], inv[u]>> \in rtUsedBy

=============================================================================
